---- MODULE Spec2Model ----
(***************************************************************************)
(* Trading server: price feed connection (priceHandler.ts), live price     *)
(* publishing and order intake / deferred settlement (server.ts).          *)
(*                                                                         *)
(* Prices are integers in units of 10^-6 so that the 0.998 / 1.002         *)
(* multipliers stay exact; amounts are multiples of 5 so that the 0.8      *)
(* payout stays exact.  The value 0 stands for an absent (or falsy) price. *)
(***************************************************************************)
EXTENDS Integers, Sequences, FiniteSets, TLC

\* ------------------------------------------------------------------ bounds
\* Upstream sockets ever created by initBinanceWebSocket in one run.
MaxSockets == 7

\* Orders accepted in one run.
MaxOrders == 2
\* Intake requests being handled at the same time.
MaxReqs == 2
\* Settlement callbacks running at the same time.
MaxSettle == 2
\* Browser connections to the price stream.
MaxWs == 1
\* Browser connections when the price stream is studied on its own.
MaxStreams == 2
\* Process restarts in one run.
MaxBoots == 1
\* Duplicate invocations of a settlement callback in one run.
MaxDuplicates == 1
\* Balance of the user when the run starts.
InitialBalance == 10

\* ------------------------------------------------------- program constants
RECONNECT_DELAY == 5000
MAX_RECONNECT_ATTEMPTS == 5
\* payout: 0.8, as the fraction PayoutNum / PayoutDen
PayoutNum == 4
PayoutDen == 5
\* Share of one side above which the published price is biased: 0.6 = 6 / 10
RatioNum == 6
RatioDen == 10
\* 0.998 and 1.002 as parts per thousand
DownFactor == 998
UpFactor == 1002
PerMille == 1000

\* Users with a row in the store.
Users == {"u1"}

\* Symbols known to the store / followed on the feed.
Symbols == {"BTCUSDT"}

\* Raw prices the upstream feed may report (1.000000 in 10^-6 units).
RawPrices == {1000000}

\* Event time (field E) of the ticker frames the server receives.
RawTimes == {5}

\* Symbols the feed connection is asked to follow when studied on its own.
FeedSymbols == {"BTCUSDT", "ETHUSDT"}

\* Prices and event times of the ticker frames when the feed connection is
\* studied on its own: frames may arrive out of order.
FeedPrices == {990000, 1000000}

FeedTimes == {3, 5}

VARIABLES
    \* ---- priceHandler.ts module state
    priceCache,         \* symbol -> last raw price, 0 when absent
    sockets,            \* readyState of every upstream socket ever created
    binanceWs,          \* index of the current socket in sockets, 0 = null
    pingInterval,       \* handle of the last heartbeat interval, 0 = undefined
    pingLoops,          \* handles of the heartbeat intervals still running
    reconnectAttempts,
    reconnectTimers,    \* delays (ms) of the armed reconnect timeouts
    activeSymbols,
    sent,               \* frames sent upstream: [sock, params]
    \* ---- the store (prisma): survives a restart
    balance,            \* user id -> balance
    orders,             \* order rows, the id is the index
    symbolRow,          \* symbol -> [manipulatedPrice, currentPrice]
    \* ---- server.ts module state
    manipulatedPrices,  \* symbol -> last published price, 0 when absent
    clients,            \* symbol -> connections streaming it
    intervals,          \* <<connection, symbol>> of the publish intervals running
    timers,             \* ids of the orders whose settlement timeout is armed
    settle,             \* settlement callbacks in flight
    reqs,               \* POST /api/orders handlers in flight
    \* ---- bookkeeping for the properties
    closesSinceOpen,    \* close events since the last successful open
    newest,             \* symbol -> the observation with the latest event time
    lastPing,           \* the socket the last heartbeat ping was sent on, 0 = none
    debits,             \* one entry per balance decrement applied at intake
    audit,              \* per order: settlement invocations, outcome writes, credits
    boots,              \* process restarts so far
    lastResp,           \* the response sent by the step just taken, if any
    fired,              \* publish intervals that have run in the current period
    received,           \* connection -> price updates received in the current period
    \* ---- the pure functions applied to inputs of their own
    calc                \* the last application: its inputs and its result

feedVars == <<priceCache, sockets, binanceWs, pingInterval, pingLoops,
              reconnectAttempts, reconnectTimers, activeSymbols, sent,
              closesSinceOpen, newest, lastPing>>

storeVars == <<balance, orders, symbolRow>>

serverVars == <<manipulatedPrices, clients, intervals, timers, settle, reqs>>

ghostVars == <<debits, audit, boots>>

pureVars == <<calc>>

periodVars == <<fired, received>>

vars == <<feedVars, storeVars, serverVars, ghostVars, lastResp, pureVars,
          periodVars>>

\* ------------------------------------------------------------------ helpers
RECURSIVE Pow2(_)
Pow2(n) == IF n = 0 THEN 1 ELSE 2 * Pow2(n - 1)

RemoveAt(s, i) == [j \in 1..(Len(s) - 1) |-> IF j < i THEN s[j] ELSE s[j + 1]]

\* ws.terminate(): a no-op on a closed socket, otherwise the socket is torn
\* down and its close event is emitted later.
Terminate(socks, s) ==
    IF s # 0 /\ socks[s] \in {"CONNECTING", "OPEN"}
    THEN [socks EXCEPT ![s] = "CLOSING"]
    ELSE socks

\* ------------------------------------------------------------ feed connection
\* initBinanceWebSocket(): terminate the previous socket, create a new one.
initBinanceWebSocket ==
    /\ Len(sockets) < MaxSockets
    /\ sockets' = Append(Terminate(sockets, binanceWs), "CONNECTING")
    /\ binanceWs' = Len(sockets) + 1

\* The delay handleReconnect() computes for the current attempt counter.
ReconnectDelayLinear(attempts) == RECONNECT_DELAY * (attempts + 1)

ReconnectDelay(attempts) == RECONNECT_DELAY * Pow2(attempts)

\* handleReconnect(): give up at the cap, otherwise arm one timeout.
handleReconnect ==
    IF reconnectAttempts >= MAX_RECONNECT_ATTEMPTS
    THEN UNCHANGED <<reconnectAttempts, reconnectTimers>>
    ELSE /\ reconnectTimers' =
                Append(reconnectTimers, ReconnectDelay(reconnectAttempts))
         /\ reconnectAttempts' = reconnectAttempts + 1

\* An open handler that sends no subscribe frame.
FeedOpenSilent(s) ==
    /\ sockets[s] = "CONNECTING"
    /\ sockets' = [sockets EXCEPT ![s] = "OPEN"]
    /\ reconnectAttempts' = 0
    /\ pingInterval' = s
    /\ pingLoops' = pingLoops \cup {s}
    /\ closesSinceOpen' = 0
    /\ UNCHANGED <<priceCache, binanceWs, reconnectTimers, activeSymbols, sent,
                   newest, lastPing>>

\* binanceWs.on("open")
FeedOpen(s) ==
    /\ sockets[s] = "CONNECTING"
    /\ sockets' = [sockets EXCEPT ![s] = "OPEN"]
    /\ reconnectAttempts' = 0
    /\ sent' = IF activeSymbols # {}
               THEN Append(sent, [sock |-> binanceWs, params |-> activeSymbols])
               ELSE sent
    /\ pingInterval' = s
    /\ pingLoops' = pingLoops \cup {s}
    /\ closesSinceOpen' = 0
    /\ UNCHANGED <<priceCache, binanceWs, reconnectTimers, activeSymbols, newest, lastPing>>

\* parseFloat of a price field that is missing or not a number: NaN, which
\* getCurrentPrice takes as no price (NaN || null), like the absent entry.
NotANumber == 0

\* Inbound frames other than a ticker update with a numeric price: text that
\* is not JSON, a frame of another event type, a 24hrTicker frame whose field
\* c is missing or not a number.
BadFrames == {"unparseable", "otherEvent", "tickerNoPrice"}

\* The message handler on the cache: JSON.parse in a try block, then for
\* e === "24hrTicker" priceCache.set(s, parseFloat(c)).
OnMessage(cache, sym, kind, p) ==
    IF kind = "ticker" THEN [cache EXCEPT ![sym] = p]
    ELSE IF kind = "tickerNoPrice" THEN [cache EXCEPT ![sym] = NotANumber]
    ELSE cache

\* binanceWs.on("message") with a frame other than a ticker update with a
\* numeric price.
FeedBadMessage(s, sym, kind) ==
    /\ sockets[s] = "OPEN"
    /\ priceCache' = OnMessage(priceCache, sym, kind, NotANumber)
    /\ UNCHANGED <<sockets, binanceWs, pingInterval, pingLoops,
                   reconnectAttempts, reconnectTimers, activeSymbols, sent,
                   closesSinceOpen, newest, lastPing>>

\* binanceWs.on("message") with a 24hrTicker frame for sym carrying price p
\* and event time t; the handler reads s and c of the frame only.
FeedMessage(s, sym, p, t) ==
    /\ sockets[s] = "OPEN"
    /\ priceCache' = OnMessage(priceCache, sym, "ticker", p)
    /\ newest' = IF t >= newest[sym].at
                  THEN [newest EXCEPT ![sym] = [at |-> t, price |-> p]]
                  ELSE newest
    /\ UNCHANGED <<sockets, binanceWs, pingInterval, pingLoops,
                   reconnectAttempts, reconnectTimers, activeSymbols, sent,
                   closesSinceOpen, lastPing>>

\* An error handler that schedules a reconnect of its own.
FeedErrorReconnects(s) ==
    /\ sockets[s] \in {"CONNECTING", "OPEN"}
    /\ sockets' = Terminate([sockets EXCEPT ![s] = "CLOSING"], binanceWs)
    /\ handleReconnect
    /\ UNCHANGED <<priceCache, binanceWs, pingInterval, pingLoops,
                   activeSymbols, sent, closesSinceOpen, newest, lastPing>>

\* binanceWs.on("error"): the failing socket is on its way to closed (ws emits
\* close after error); the handler terminates the current socket.
FeedError(s) ==
    /\ sockets[s] \in {"CONNECTING", "OPEN"}
    /\ sockets' = Terminate([sockets EXCEPT ![s] = "CLOSING"], binanceWs)
    /\ UNCHANGED <<priceCache, binanceWs, pingInterval, pingLoops,
                   reconnectAttempts, reconnectTimers, activeSymbols, sent,
                   closesSinceOpen, newest, lastPing>>

\* The current socket is open: binanceWs?.readyState === WebSocket.OPEN
FeedIsOpen == binanceWs # 0 /\ sockets[binanceWs] = "OPEN"

\* The callback of a heartbeat interval h runs: a ping is sent on the current
\* socket when it is open.
HeartbeatTick(h) ==
    /\ h \in pingLoops
    /\ lastPing' = IF FeedIsOpen THEN binanceWs ELSE lastPing
    /\ UNCHANGED <<priceCache, sockets, binanceWs, pingInterval, pingLoops,
                   reconnectAttempts, reconnectTimers, activeSymbols, sent,
                   closesSinceOpen, newest>>

\* A close handler that leaves the heartbeat interval running.
FeedCloseKeepsHeartbeat(s) ==
    /\ sockets[s] \in {"OPEN", "CLOSING"}
    /\ sockets' = [sockets EXCEPT ![s] = "CLOSED"]
    /\ handleReconnect
    /\ closesSinceOpen' = closesSinceOpen + 1
    /\ UNCHANGED <<priceCache, binanceWs, pingInterval, pingLoops,
                   activeSymbols, sent, newest, lastPing>>

\* binanceWs.on("close"): the peer closed an open socket, or a torn-down
\* socket finished closing.
FeedClose(s) ==
    /\ sockets[s] \in {"OPEN", "CLOSING"}
    /\ sockets' = [sockets EXCEPT ![s] = "CLOSED"]
    /\ pingLoops' = pingLoops \ {pingInterval}
    /\ handleReconnect
    /\ closesSinceOpen' = closesSinceOpen + 1
    /\ UNCHANGED <<priceCache, binanceWs, pingInterval, activeSymbols, sent,
                   newest, lastPing>>

\* A reconnect timeout armed by handleReconnect fires.
ReconnectFire(i) ==
    /\ i \in 1..Len(reconnectTimers)
    /\ reconnectTimers' = RemoveAt(reconnectTimers, i)
    /\ initBinanceWebSocket
    /\ UNCHANGED <<priceCache, pingInterval, pingLoops, reconnectAttempts,
                   activeSymbols, sent, closesSinceOpen, newest, lastPing>>

\* subscribeToSymbol without the test of the interest set.
SubscribeEffectAlways(active, frames, sym) ==
    [activeSymbols |-> active \cup {sym},
     sent |-> IF FeedIsOpen
              THEN Append(frames, [sock |-> binanceWs, params |-> {sym}])
              ELSE frames]

\* What subscribeToSymbol(symbol) makes of the interest set and of the frames
\* sent so far: nothing for a symbol already of interest, otherwise the symbol
\* is added and, on an open socket, one frame is sent for it.
SubscribeEffect(active, frames, sym) ==
    IF sym \in active
    THEN [activeSymbols |-> active, sent |-> frames]
    ELSE [activeSymbols |-> active \cup {sym},
          sent |-> IF FeedIsOpen
                   THEN Append(frames, [sock |-> binanceWs, params |-> {sym}])
                   ELSE frames]

\* subscribeToSymbol(symbol)
subscribeToSymbol(sym) ==
    /\ activeSymbols' = SubscribeEffect(activeSymbols, sent, sym).activeSymbols
    /\ sent' = SubscribeEffect(activeSymbols, sent, sym).sent
    /\ UNCHANGED <<priceCache, sockets, binanceWs, pingInterval, pingLoops,
                   reconnectAttempts, reconnectTimers, closesSinceOpen, newest, lastPing>>

\* No function was applied.
NoCalc == [op |-> "none"]

\* No response was sent.
NoResp == [status |-> 0, error |-> "", class |-> "", over |-> FALSE]

\* ------------------------------------------------------------ price handling
\* getCurrentPrice(symbol): priceCache.get(symbol) || null
getCurrentPrice(sym) == priceCache[sym]

\* One row's contribution to the groupBy sum of direction dir.  An order not
\* yet settled (outcome null in the store) has outcome "pending" here.
OpenAmount(o, sym, dir) ==
    IF o.symbolId = sym /\ o.outcome = "pending" /\ o.direction = dir
    THEN o.amount
    ELSE 0

RECURSIVE SumOpen(_, _, _, _)
SumOpen(rows, n, sym, dir) ==
    IF n = 0 THEN 0
    ELSE SumOpen(rows, n - 1, sym, dir) + OpenAmount(rows[n], sym, dir)

\* getOrderTotals(symbolId): amounts of the open orders, by direction.
getOrderTotals(sym) ==
    [upValue |-> SumOpen(orders, Len(orders), sym, "up"),
     downValue |-> SumOpen(orders, Len(orders), sym, "down")]

\* A multiplier of 0.996 in place of 0.998.
MulDownWide(p) == (p * (DownFactor - 2)) \div PerMille

MulDown(p) == (p * DownFactor) \div PerMille

MulUp(p) == (p * UpFactor) \div PerMille

\* The bias with a share of exactly 0.6 already counted as dominating.
ManipulateAtLeast(price, upValue, downValue) ==
    LET totalValue == upValue + downValue IN
    IF totalValue > 0
    THEN IF upValue * RatioDen >= RatioNum * totalValue THEN MulDown(price)
         ELSE IF downValue * RatioDen >= RatioNum * totalValue THEN MulUp(price)
         ELSE price
    ELSE price

\* The bias of adjustPrice: by the share of each side, threshold 0.6.
Manipulate(price, upValue, downValue) ==
    LET totalValue == upValue + downValue IN
    IF totalValue > 0
    THEN IF upValue * RatioDen > RatioNum * totalValue THEN MulDown(price)
         ELSE IF downValue * RatioDen > RatioNum * totalValue THEN MulUp(price)
         ELSE price
    ELSE price

\* adjustPrice(symbol): the value it returns; without a cached price it is
\* the last manipulated price stored on the symbol row.
adjustPrice(sym) ==
    IF getCurrentPrice(sym) = 0
    THEN symbolRow[sym].manipulatedPrice
    ELSE LET t == getOrderTotals(sym) IN
         Manipulate(getCurrentPrice(sym), t.upValue, t.downValue)

\* ------------------------------------------------------------ price stream
\* wss.on("connection") for a connection streaming sym.
WsConnect(w, sym) ==
    /\ \A s2 \in Symbols : w \notin clients[s2] /\ <<w, s2>> \notin intervals
    /\ clients' = [clients EXCEPT ![sym] = @ \cup {w}]
    /\ intervals' = intervals \cup {<<w, sym>>}
    /\ UNCHANGED <<manipulatedPrices, timers, settle, reqs>>
    /\ UNCHANGED <<pureVars, periodVars, feedVars, storeVars, ghostVars>>
    /\ lastResp' = NoResp

\* ws.on("close"): the interval of this connection is cleared only when the
\* set of clients of the symbol became empty.
WsClose(w, sym) ==
    /\ w \in clients[sym]
    /\ clients' = [clients EXCEPT ![sym] = @ \ {w}]
    /\ intervals' = IF clients'[sym] = {}
                    THEN intervals \ {<<w, sym>>}
                    ELSE intervals
    /\ UNCHANGED <<manipulatedPrices, timers, settle, reqs>>
    /\ UNCHANGED <<pureVars, periodVars, feedVars, storeVars, ghostVars>>
    /\ lastResp' = NoResp

\* The setInterval callback of one connection: recompute and store the price.
PublishTick(w, sym) ==
    /\ <<w, sym>> \in intervals
    /\ symbolRow' =
          IF getCurrentPrice(sym) = 0
          THEN symbolRow
          ELSE [symbolRow EXCEPT ![sym] =
                   [manipulatedPrice |-> adjustPrice(sym),
                    currentPrice |-> getCurrentPrice(sym)]]
    /\ manipulatedPrices' =
          IF adjustPrice(sym) # 0
          THEN [manipulatedPrices EXCEPT ![sym] = adjustPrice(sym)]
          ELSE manipulatedPrices
    /\ UNCHANGED <<balance, orders, clients, intervals, timers, settle, reqs>>
    /\ UNCHANGED <<pureVars, feedVars, ghostVars>>
    /\ lastResp' = NoResp

\* The connections a run of the interval callback sends the price update to:
\* every client of the symbol, when the price is truthy.
Broadcast(sym) == IF adjustPrice(sym) # 0 THEN clients[sym] ELSE {}

\* One run of the interval callback of a connection within the current
\* period of 1000 ms, with the updates it delivers.
StreamTick(w, sym) ==
    /\ <<w, sym>> \notin fired
    /\ PublishTick(w, sym)
    /\ fired' = fired \cup {<<w, sym>>}
    /\ received' = [c \in DOMAIN received |->
                       IF c \in Broadcast(sym) THEN received[c] + 1
                                              ELSE received[c]]

\* A period of 1000 ms ends: every interval may run once more.
PeriodEnd ==
    /\ fired # {}
    /\ fired' = {}
    /\ received' = [c \in DOMAIN received |-> 0]
    /\ UNCHANGED <<feedVars, storeVars, serverVars, ghostVars, pureVars>>
    /\ lastResp' = NoResp

\* ------------------------------------------------------------ order intake
NoBody == [userId |-> "", symbol |-> "", amount |-> 0, direction |-> "",
           entryPrice |-> 0, duration |-> 0]

IdleReq == [pc |-> "idle", body |-> NoBody]

EntryPrices == {990000, 1000000}

\* Request bodies: the well-formed ones, and the ones with a single field
\* missing, out of range or naming no user.
Bodies ==
    {[userId |-> "u1", symbol |-> "BTCUSDT", amount |-> 10, direction |-> "up",
      entryPrice |-> e, duration |-> 1] : e \in EntryPrices}
    \cup {[userId |-> "u1", symbol |-> "BTCUSDT", amount |-> 10,
           direction |-> "down", entryPrice |-> 1000000, duration |-> 1]}
    \cup {[userId |-> "u1", symbol |-> "BTCUSDT", amount |-> a, direction |-> "up",
           entryPrice |-> 1000000, duration |-> 1] : a \in {0, -5}}
    \cup {[userId |-> "u1", symbol |-> "BTCUSDT", amount |-> 10, direction |-> d,
           entryPrice |-> 1000000, duration |-> 1] : d \in {""}}
    \cup {[userId |-> "u1", symbol |-> "BTCUSDT", amount |-> 10, direction |-> "up",
           entryPrice |-> 1000000, duration |-> t] : t \in {0}}
    \cup {[userId |-> "ghost", symbol |-> "BTCUSDT", amount |-> 10,
           direction |-> "up", entryPrice |-> 1000000, duration |-> 1]}
    \cup {[userId |-> "u1", symbol |-> "", amount |-> 10,
           direction |-> "up", entryPrice |-> 1000000, duration |-> 1]}

\* The value preconditions of intake: amount > 0, duration > 0, a direction
\* of up or down, a symbol.
ValidValues(b) ==
    /\ b.amount > 0
    /\ b.duration > 0
    /\ b.direction \in {"up", "down"}
    /\ b.symbol # ""

\* What the intake contract calls the request, given the balance it meets:
\* invalid input, unknown entity, insufficient balance, or acceptable.
Classify(b) ==
    IF ~ValidValues(b) THEN "invalid"
    ELSE IF b.userId \notin Users \/ b.symbol \notin Symbols THEN "unknown"
    ELSE IF b.amount > balance[b.userId] THEN "insufficient"
    ELSE "ok"

Over(b) == b.userId \in Users /\ b.amount > balance[b.userId]

\* if (!symbol || !amount || !direction || !duration)
InvalidInput(b) ==
    b.symbol = "" \/ b.amount = 0 \/ b.direction = "" \/ b.duration = 0

\* The comparison with its operands the wrong way round.
BalanceBelowReversed(bal, amount) == bal > amount

\* dbUser.balance < amount
BalanceBelow(bal, amount) == bal < amount

\* if (!dbUser || dbUser.balance < amount)
Rejected(b) ==
    b.userId \notin Users \/ BalanceBelow(balance[b.userId], b.amount)

\* What the handler answers before its transaction: 400 with a reason, or
\* nothing yet (status 0) when the request goes on to the transaction.
IntakeReply(b) ==
    IF InvalidInput(b) THEN [status |-> 400, error |-> "Invalid input"]
    ELSE IF Rejected(b) THEN [status |-> 400, error |-> "Insufficient balance"]
    ELSE [status |-> 0, error |-> ""]

\* A request arrives on handler r: validation, the user lookup and the balance
\* check; a request that passes waits for its transaction.
IntakeCheck(r, b) ==
    /\ reqs[r].pc = "idle"
    /\ \A q \in 1..(r - 1) : reqs[q].pc = "txn"
    /\ IF IntakeReply(b).status # 0
       THEN /\ lastResp' = [status |-> IntakeReply(b).status,
                            error |-> IntakeReply(b).error,
                            class |-> Classify(b), over |-> Over(b)]
            /\ UNCHANGED reqs
       ELSE /\ reqs' = [reqs EXCEPT ![r] = [pc |-> "txn", body |-> b]]
            /\ lastResp' = NoResp
    /\ UNCHANGED <<manipulatedPrices, clients, intervals, timers, settle>>
    /\ UNCHANGED <<pureVars, periodVars, feedVars, storeVars, debits, audit, boots>>

\* The row order.create writes.
NewOrder(b) ==
    [userId |-> b.userId, symbolId |-> b.symbol, amount |-> b.amount,
     direction |-> b.direction, entryPrice |-> b.entryPrice,
     manipulatedEntryPrice |-> b.entryPrice, duration |-> b.duration,
     payoutNum |-> PayoutNum, outcome |-> "pending", exitPrice |-> 0,
     profitLoss |-> 0]

\* A failing intake that keeps the order row and loses the decrement.
IntakeTxnTorn(b, fails) ==
    /\ orders' = Append(orders, NewOrder(b))
    /\ audit' = Append(audit, [invocations |-> 0, writes |-> 0, credits |-> 0])
    /\ IF fails
       THEN UNCHANGED <<balance, debits>>
       ELSE /\ balance' = [balance EXCEPT ![b.userId] = @ - b.amount]
            /\ debits' = Append(debits, [userId |-> b.userId, amount |-> b.amount])

\* prisma.$transaction([order.create, user.update decrement]): both writes,
\* or none when the transaction fails.
IntakeTxn(b, fails) ==
    IF fails
    THEN UNCHANGED <<balance, orders, debits, audit>>
    ELSE /\ orders' = Append(orders, NewOrder(b))
         /\ balance' = [balance EXCEPT ![b.userId] = @ - b.amount]
         /\ debits' = Append(debits, [userId |-> b.userId, amount |-> b.amount])
         /\ audit' = Append(audit, [invocations |-> 0, writes |-> 0, credits |-> 0])

\* The transaction of handler r ends: on success the settlement timeout is
\* armed and 201 returned, on failure the catch block returns 500.
IntakeCommit(r, fails) ==
    /\ reqs[r].pc = "txn"
    /\ fails \/ Len(orders) < MaxOrders
    /\ IntakeTxn(reqs[r].body, fails)
    /\ timers' = IF fails THEN timers ELSE timers \cup {Len(orders) + 1}
    /\ reqs' = [reqs EXCEPT ![r] = IdleReq]
    /\ lastResp' = [status |-> IF fails THEN 500 ELSE 201,
                    error |-> IF fails THEN "Server Error" ELSE "",
                    class |-> IF ValidValues(reqs[r].body) THEN "ok" ELSE "invalid",
                    over |-> FALSE]
    /\ UNCHANGED <<symbolRow, manipulatedPrices, clients, intervals, settle, boots>>
    /\ UNCHANGED <<pureVars, periodVars, feedVars>>

\* ------------------------------------------------------------ settlement
IdleSettle == [pc |-> "idle", order |-> 0, finalPrice |-> 0, isWin |-> FALSE,
               profitLoss |-> 0]

\* The lowest free callback slot.
FreeSlot(i) ==
    /\ settle[i].pc = "idle"
    /\ \A j \in 1..(i - 1) : settle[j].pc # "idle"

\* The last-second manipulation: by which side holds more.
LastSecond(price, upValue, downValue) ==
    IF upValue > downValue THEN MulDown(price)
    ELSE IF downValue > upValue THEN MulUp(price)
    ELSE price

\* A comparison that counts an unchanged price as a win.
IsWinOrEqual(direction, finalPrice, entry) ==
    IF direction = "up" THEN finalPrice >= entry ELSE finalPrice <= entry

IsWin(direction, finalPrice, entry) ==
    IF direction = "up" THEN finalPrice > entry ELSE finalPrice < entry

\* A profit of the whole stake in place of the payout share of it.
ProfitLossFull(isWin, amount) ==
    IF isWin THEN amount ELSE -amount

ProfitLoss(isWin, amount) ==
    IF isWin THEN (amount * PayoutNum) \div PayoutDen ELSE -amount

\* manipulatedPrices.get(symbol) || getCurrentPrice(symbol)
ReadFinalPrice(sym) ==
    IF manipulatedPrices[sym] # 0 THEN manipulatedPrices[sym]
    ELSE getCurrentPrice(sym)

\* The callback runs for order o up to its transaction: it returns when there
\* is no price, otherwise the totals are read, final price, outcome and profit
\* are computed and the settlement transaction is issued.  (The price read and
\* the totals query are taken as one step.)
SettleBegin(i, o) ==
    /\ FreeSlot(i)
    /\ audit' = [audit EXCEPT ![o].invocations = @ + 1]
    /\ LET row == orders[o]
           t == getOrderTotals(row.symbolId)
           finalPrice == LastSecond(ReadFinalPrice(row.symbolId),
                                    t.upValue, t.downValue)
           isWin == IsWin(row.direction, finalPrice, row.manipulatedEntryPrice)
       IN settle' = IF ReadFinalPrice(row.symbolId) = 0
                    THEN settle
                    ELSE [settle EXCEPT ![i] =
                             [pc |-> "commit", order |-> o,
                              finalPrice |-> finalPrice, isWin |-> isWin,
                              profitLoss |-> ProfitLoss(isWin, row.amount)]]
    /\ UNCHANGED <<manipulatedPrices, clients, intervals, reqs>>
    /\ UNCHANGED <<pureVars, periodVars, feedVars, storeVars, debits, boots>>
    /\ lastResp' = NoResp

\* The settlement timeout of order o fires.
SettleFire(i, o) ==
    /\ o \in timers
    /\ timers' = timers \ {o}
    /\ SettleBegin(i, o)

\* A settlement transaction that credits a win with the profit alone.
SettleTxnProfitOnly(id, finalPrice, isWin, profitLoss) ==
    /\ orders' = [orders EXCEPT ![id] =
           [@ EXCEPT !.exitPrice = finalPrice,
                     !.outcome = IF isWin THEN "win" ELSE "loss",
                     !.profitLoss = profitLoss]]
    /\ balance' = IF isWin
                  THEN [balance EXCEPT ![orders[id].userId] = @ + profitLoss]
                  ELSE balance
    /\ audit' = [audit EXCEPT ![id] =
           [@ EXCEPT !.writes = @ + 1,
                     !.credits = IF isWin THEN @ + 1 ELSE @]]

\* prisma.$transaction([order.update, user.update]) of the callback: the
\* outcome, exit price and profit are written, and a win is credited.
SettleTxn(id, finalPrice, isWin, profitLoss) ==
    /\ orders' = [orders EXCEPT ![id] =
           [@ EXCEPT !.exitPrice = finalPrice,
                     !.outcome = IF isWin THEN "win" ELSE "loss",
                     !.profitLoss = profitLoss]]
    /\ balance' = IF isWin
                  THEN [balance EXCEPT ![orders[id].userId] =
                           @ + orders[id].amount + profitLoss]
                  ELSE balance
    /\ audit' = [audit EXCEPT ![id] =
           [@ EXCEPT !.writes = @ + 1,
                     !.credits = IF isWin THEN @ + 1 ELSE @]]

\* The settlement transaction ends: committed, or failed with nothing
\* written (the catch block logs).
SettleCommit(i, fails) ==
    /\ settle[i].pc = "commit"
    /\ IF fails
       THEN UNCHANGED <<balance, orders, audit>>
       ELSE SettleTxn(settle[i].order, settle[i].finalPrice, settle[i].isWin,
                      settle[i].profitLoss)
    /\ settle' = [settle EXCEPT ![i] = IdleSettle]
    /\ UNCHANGED <<symbolRow, manipulatedPrices, clients, intervals, timers, reqs>>
    /\ UNCHANGED <<pureVars, periodVars, feedVars, debits, boots>>
    /\ lastResp' = NoResp

\* Module load: empty cache and interest set, first socket connecting.
InitFeed ==
    /\ priceCache = [sym \in Symbols |-> 0]
    /\ sockets = <<"CONNECTING">>
    /\ binanceWs = 1
    /\ pingInterval = 0
    /\ pingLoops = {}
    /\ reconnectAttempts = 0
    /\ reconnectTimers = <<>>
    /\ activeSymbols = {}
    /\ sent = <<>>
    /\ closesSinceOpen = 0
    /\ newest = [sym \in Symbols |-> [at |-> 0, price |-> 0]]
    /\ lastPing = 0

\* Module load of server.ts: empty maps, no timer, no request.
InitServer ==
    /\ manipulatedPrices = [sym \in Symbols |-> 0]
    /\ clients = [sym \in Symbols |-> {}]
    /\ intervals = {}
    /\ timers = {}
    /\ settle = [i \in 1..MaxSettle |-> IdleSettle]
    /\ reqs = [r \in 1..MaxReqs |-> IdleReq]

\* The store before the first request: funded users, no order, symbols
\* never priced.
InitStore ==
    /\ balance = [u \in Users |-> InitialBalance]
    /\ orders = <<>>
    /\ symbolRow = [sym \in Symbols |-> [manipulatedPrice |-> 0, currentPrice |-> 0]]

Init ==
    /\ InitFeed
    /\ InitServer
    /\ InitStore
    /\ debits = <<>>
    /\ audit = <<>>
    /\ boots = 0
    /\ lastResp = NoResp
    /\ calc = NoCalc
    /\ fired = {}
    /\ received = [c \in 1..MaxStreams |-> 0]

\* The process is restarted: module state is rebuilt, the store is kept.
Restart ==
    /\ boots < MaxBoots
    /\ boots' = boots + 1
    /\ priceCache' = [sym \in Symbols |-> 0]
    /\ sockets' = <<"CONNECTING">>
    /\ binanceWs' = 1
    /\ pingInterval' = 0
    /\ pingLoops' = {}
    /\ reconnectAttempts' = 0
    /\ reconnectTimers' = <<>>
    /\ activeSymbols' = {}
    /\ sent' = <<>>
    /\ closesSinceOpen' = 0
    /\ newest' = [sym \in Symbols |-> [at |-> 0, price |-> 0]]
    /\ lastPing' = 0
    /\ manipulatedPrices' = [sym \in Symbols |-> 0]
    /\ clients' = [sym \in Symbols |-> {}]
    /\ intervals' = {}
    /\ timers' = {}
    /\ settle' = [i \in 1..MaxSettle |-> IdleSettle]
    /\ reqs' = [r \in 1..MaxReqs |-> IdleReq]
    /\ UNCHANGED <<storeVars, debits, audit, pureVars, periodVars>>
    /\ lastResp' = NoResp

RECURSIVE Duplicates(_)
Duplicates(n) ==
    IF n = 0 THEN 0
    ELSE Duplicates(n - 1)
         + (IF audit[n].invocations > 1 THEN audit[n].invocations - 1 ELSE 0)

\* The settlement callback is invoked once more for an order whose timeout
\* has fired (a duplicate timer).
Resettle(i, o) ==
    /\ o \in 1..Len(orders)
    /\ o \notin timers
    /\ Duplicates(Len(audit)) < MaxDuplicates
    /\ UNCHANGED timers
    /\ SettleBegin(i, o)

Others == <<storeVars, serverVars, ghostVars, pureVars, periodVars>>

NextFeed ==
    \/ (\E s \in 1..Len(sockets) : FeedOpen(s)) /\ UNCHANGED Others /\ lastResp' = NoResp
    \/ (\E s \in 1..Len(sockets), sym \in Symbols, p \in FeedPrices, t \in FeedTimes :
          FeedMessage(s, sym, p, t)) /\ UNCHANGED Others /\ lastResp' = NoResp
    \/ (\E s \in 1..Len(sockets) : FeedError(s)) /\ UNCHANGED Others /\ lastResp' = NoResp
    \/ (\E s \in 1..Len(sockets) : FeedClose(s)) /\ UNCHANGED Others /\ lastResp' = NoResp
    \/ (\E i \in 1..Len(reconnectTimers) : ReconnectFire(i)) /\ UNCHANGED Others /\ lastResp' = NoResp
    \/ (\E sym \in FeedSymbols : subscribeToSymbol(sym)) /\ UNCHANGED Others /\ lastResp' = NoResp
    \/ (\E h \in 1..Len(sockets) : HeartbeatTick(h)) /\ UNCHANGED Others /\ lastResp' = NoResp
    \/ (\E s \in 1..Len(sockets), sym \in Symbols, kind \in BadFrames :
          FeedBadMessage(s, sym, kind)) /\ UNCHANGED Others /\ lastResp' = NoResp

\* The feed connection on its own.
SpecFeed == Init /\ [][NextFeed]_vars

\* The server with a feed that connects and delivers ticks.
Next ==
    \/ (\E s \in 1..Len(sockets) : FeedOpen(s)) /\ UNCHANGED Others /\ lastResp' = NoResp
    \/ (\E s \in 1..Len(sockets), sym \in Symbols, p \in RawPrices, t \in RawTimes :
          FeedMessage(s, sym, p, t)) /\ UNCHANGED Others /\ lastResp' = NoResp
    \/ \E w \in 1..MaxWs, sym \in Symbols : WsConnect(w, sym)
    \/ \E w \in 1..MaxWs, sym \in Symbols : WsClose(w, sym)
    \/ (\E w \in 1..MaxWs, sym \in Symbols : PublishTick(w, sym)) /\ UNCHANGED periodVars
    \/ \E r \in 1..MaxReqs, b \in Bodies : IntakeCheck(r, b)
    \/ \E r \in 1..MaxReqs, fails \in BOOLEAN : IntakeCommit(r, fails)
    \/ \E i \in 1..MaxSettle, o \in 1..Len(orders) : SettleFire(i, o)
    \/ \E i \in 1..MaxSettle, fails \in BOOLEAN : SettleCommit(i, fails)

Spec == Init /\ [][Next]_vars

\* The server across process restarts.
NextRestart == Next \/ Restart

SpecRestart == Init /\ [][NextRestart]_vars

\* The server with no stream client connected, when a settlement callback
\* can be invoked again for its order.
NextResettle ==
    \/ (\E s \in 1..Len(sockets) : FeedOpen(s)) /\ UNCHANGED Others /\ lastResp' = NoResp
    \/ (\E s \in 1..Len(sockets), sym \in Symbols, p \in RawPrices, t \in RawTimes :
          FeedMessage(s, sym, p, t)) /\ UNCHANGED Others /\ lastResp' = NoResp
    \/ \E r \in 1..MaxReqs, b \in Bodies : IntakeCheck(r, b)
    \/ \E r \in 1..MaxReqs, fails \in BOOLEAN : IntakeCommit(r, fails)
    \/ \E i \in 1..MaxSettle, o \in 1..Len(orders) : SettleFire(i, o)
    \/ \E i \in 1..MaxSettle, fails \in BOOLEAN : SettleCommit(i, fails)
    \/ \E i \in 1..MaxSettle, o \in 1..Len(orders) : Resettle(i, o)

SpecResettle == Init /\ [][NextResettle]_vars

\* The price stream on its own, with several browser connections and no
\* order: connections come and go while the feed delivers ticks.
NextStream ==
    \/ (\E s \in 1..Len(sockets) : FeedOpen(s)) /\ UNCHANGED Others /\ lastResp' = NoResp
    \/ (\E s \in 1..Len(sockets), sym \in Symbols, p \in FeedPrices, t \in RawTimes :
          FeedMessage(s, sym, p, t)) /\ UNCHANGED Others /\ lastResp' = NoResp
    \/ (\E w \in 1..MaxStreams, sym \in Symbols : WsConnect(w, sym))
    \/ (\E w \in 1..MaxStreams, sym \in Symbols : WsClose(w, sym))
    \/ (\E w \in 1..MaxStreams, sym \in Symbols : StreamTick(w, sym))
    \/ PeriodEnd

SpecStream == Init /\ [][NextStream]_vars

\* ------------------------------------------------- the functions on their own
\* Raw prices given to the price functions: 100 and 200, here in units of
\* 10^-3 so that the products stay below 2^31.
PureRawPrices == {100000, 200000}

\* Amounts open on one side of a symbol.
PureAmounts == {0, 30, 40, 50, 60, 70}

\* randomFactor = Math.random() * 0.0005 + 0.99975 in parts per JitterDen:
\* from 0.99975 = 3999 / 4000 up to 1.00025 = 4001 / 4000, which is approached
\* and not reached; rounded down to the unit the result is the same.
JitterDen == 4000

JitterFactors == {3999, 4000, 4001}

\* The bias of adjustPrice in the revision that multiplies by a random
\* variation after the bias, when there is an open amount.
ManipulateJittered(price, upValue, downValue, randomFactor) ==
    LET totalValue == upValue + downValue
        biased == IF downValue * RatioDen > RatioNum * totalValue
                  THEN MulUp(price)
                  ELSE IF upValue * RatioDen > RatioNum * totalValue
                       THEN MulDown(price)
                       ELSE price
    IN IF totalValue > 0
       THEN (biased * randomFactor) \div JitterDen
       ELSE price

\* The manipulation is applied to a raw price and the totals of the two sides.
Publish(raw, up, down) ==
    /\ calc' = [op |-> "publish", rawPrice |-> raw, upValue |-> up,
                downValue |-> down, out |-> Manipulate(raw, up, down)]
    /\ UNCHANGED <<feedVars, storeVars, serverVars, ghostVars, lastResp,
                   periodVars>>

PublishJittered(raw, up, down, r) ==
    /\ calc' = [op |-> "publishJittered", rawPrice |-> raw, upValue |-> up,
                downValue |-> down, randomFactor |-> r,
                out |-> ManipulateJittered(raw, up, down, r)]
    /\ UNCHANGED <<feedVars, storeVars, serverVars, ghostVars, lastResp,
                   periodVars>>

\* The last-second manipulation of the settlement callback is applied to a
\* price and the totals of the two sides.
SettlePrice(price, up, down) ==
    /\ calc' = [op |-> "settlePrice", rawPrice |-> price, upValue |-> up,
                downValue |-> down, out |-> LastSecond(price, up, down)]
    /\ UNCHANGED <<feedVars, storeVars, serverVars, ghostVars, lastResp,
                   periodVars>>

\* duration * 1000: milliseconds in a second.
MsPerSecond == 1000

\* The longest delay setTimeout keeps is 2^31 - 1 ms; a delay outside
\* 1 .. 2^31 - 1 is replaced by 1 ms.  For a whole number of seconds the
\* delay duration * 1000 is in range up to 2147483 seconds.
TimeoutMaxSeconds == 2147483

\* Durations (seconds) of the orders whose timer is studied.
PureDurations == {1, 60, 2147483, 2147484}

\* Milliseconds the intake transaction takes, between the computation of
\* expiresAt and the call of setTimeout.
PureLatencies == {0, 5, 999}

\* The delay setTimeout(callback, duration * 1000) applies, as seconds and
\* milliseconds.
SetTimeoutDelay(duration) ==
    IF duration >= 1 /\ duration <= TimeoutMaxSeconds
    THEN [s |-> duration, ms |-> 0]
    ELSE [s |-> 0, ms |-> 1]

\* An order of the given duration is accepted: expiresAt is computed, the
\* transaction takes latency ms, then the timer is armed.  Times are counted
\* from the instant expiresAt is computed, as seconds and milliseconds.
ArmSettlement(duration, latency) ==
    /\ calc' = [op |-> "armSettlement", duration |-> duration,
                latency |-> latency,
                expiresAt |-> [s |-> duration, ms |-> 0],
                fireAt |->
                    [s |-> SetTimeoutDelay(duration).s
                           + (latency + SetTimeoutDelay(duration).ms)
                                 \div MsPerSecond,
                     ms |-> (latency + SetTimeoutDelay(duration).ms)
                                % MsPerSecond]]
    /\ UNCHANGED <<feedVars, storeVars, serverVars, ghostVars, lastResp,
                   periodVars>>

NextPure ==
    \/ \E raw \in PureRawPrices, up \in PureAmounts, down \in PureAmounts :
          Publish(raw, up, down)
    \/ \E raw \in PureRawPrices, up \in PureAmounts, down \in PureAmounts,
          r \in JitterFactors : PublishJittered(raw, up, down, r)
    \/ \E raw \in PureRawPrices, up \in PureAmounts, down \in PureAmounts :
          SettlePrice(raw, up, down)
    \/ \E duration \in PureDurations, latency \in PureLatencies :
          ArmSettlement(duration, latency)

\* The pure functions of the program applied to inputs drawn from small sets.
SpecPure == Init /\ [][NextPure]_vars

\* ------------------------------------------------------------------ claims

InFlight(o) == \E i \in 1..MaxSettle : settle[i].pc # "idle" /\ settle[i].order = o

\* The order row meets the value preconditions of intake.
WellFormed(o) ==
    /\ orders[o].amount > 0
    /\ orders[o].duration > 0
    /\ orders[o].direction \in {"up", "down"}

\* C1: when settlement of one order is invoked twice, in any interleaving,
\* the outcome is written exactly once and the balance is credited at most
\* once, exactly once on a win (stated for the orders that meet the intake
\* preconditions).
C1_SettledOnce ==
    \A o \in 1..Len(orders) :
        WellFormed(o) =>
            /\ audit[o].writes <= 1
            /\ audit[o].credits <= 1
            /\ orders[o].outcome # "pending" => audit[o].writes = 1
            /\ orders[o].outcome = "win" => audit[o].credits = 1

\* C2: in every reachable state every user's balance is >= 0.
C2_BalanceNonNegative == \A u \in Users : balance[u] >= 0

\* C3: every accepted order eventually leaves pending: an order whose
\* settlement attempt has come to an end (no timeout armed, no callback
\* running, so nothing will touch it again) is not pending any more (stated
\* for the orders that meet the intake preconditions).
C3_AcceptedOrderLeavesPending ==
    \A o \in 1..Len(orders) :
        (WellFormed(o) /\ orders[o].outcome = "pending")
        => (o \in timers \/ InFlight(o))

\* An order left pending with no timeout and no callback stays so: no step
\* of the server touches it again.
StrandedStaysStranded ==
    [][\A o \in 1..Len(orders) :
          (orders[o].outcome = "pending" /\ o \notin timers /\ ~InFlight(o))
          => (orders'[o].outcome = "pending" /\ o \notin timers'
              /\ ~(\E i \in 1..MaxSettle :
                     settle'[i].pc # "idle" /\ settle'[i].order = o))]_vars

\* C4: a process restart re-schedules every order still pending in the store
\* (stated for the orders that meet the intake preconditions).
C4_PendingRescheduledAtRestart ==
    [][boots' = boots + 1
        => \A o \in 1..Len(orders) :
              (WellFormed(o) /\ orders'[o].outcome = "pending")
              => o \in timers']_vars

\* Stakes of the orders 1..n.
RECURSIVE SumDebits(_)
SumDebits(n) == IF n = 0 THEN 0 ELSE SumDebits(n - 1) + orders[n].amount

\* Credits applied for the orders 1..n.
RECURSIVE SumCredits(_)
SumCredits(n) ==
    IF n = 0 THEN 0
    ELSE SumCredits(n - 1)
         + audit[n].credits * (orders[n].amount + orders[n].profitLoss)

\* C5: intake is all-or-nothing: the orders created and the debits applied
\* correspond one to one, same user and same amount, and every debit is in
\* the balance; also after an intake transaction failed.
C5_IntakeAllOrNothing ==
    /\ Len(debits) = Len(orders)
    /\ \A o \in 1..Len(orders) :
          debits[o] = [userId |-> orders[o].userId, amount |-> orders[o].amount]
    /\ balance["u1"] = InitialBalance - SumDebits(Len(orders))
                                      + SumCredits(Len(orders))

\* An intake transaction has just failed while an earlier order stands.
C5_Witness ==
    /\ lastResp.status = 500
    /\ Len(orders) = 1
    /\ balance["u1"] = InitialBalance - orders[1].amount

\* C6: an intake request whose amount exceeds the user's balance is rejected,
\* and the call leaves the balance, the orders and the settlement timers
\* unchanged and no handler waiting.
C6_OverBalanceRejected ==
    [][\A r \in 1..MaxReqs, b \in Bodies :
          (IntakeCheck(r, b) /\ Over(b))
          => /\ lastResp'.status = 400
             /\ reqs' = reqs
             /\ balance' = balance
             /\ orders' = orders
             /\ timers' = timers]_vars

\* A well-formed request for more than the balance left by an accepted order
\* has just been rejected.
C6_Witness ==
    /\ lastResp.over
    /\ lastResp.class = "insufficient"
    /\ lastResp.status = 400
    /\ Len(orders) = 1
    /\ balance["u1"] < InitialBalance

\* C7: a request violating a value precondition (amount <= 0, duration <= 0,
\* direction not up or down) creates no order, so every order row satisfies
\* the preconditions.
C7_NoOrderFromInvalidInput == \A o \in 1..Len(orders) : WellFormed(o)

\* C8: two requests rejected for different causes (invalid input, unknown
\* user or symbol, insufficient balance) are answered with different reasons.
C8_ReasonsDistinguishable ==
    \A b1 \in Bodies, b2 \in Bodies :
        (/\ Classify(b1) \in {"invalid", "unknown", "insufficient"}
         /\ Classify(b2) \in {"invalid", "unknown", "insufficient"}
         /\ Classify(b1) # Classify(b2)
         /\ IntakeReply(b1).status = 400
         /\ IntakeReply(b2).status = 400)
        => IntakeReply(b1).error # IntakeReply(b2).error

\* C9: the entry price stored on an accepted order is the published price
\* the server holds for the symbol when the order is accepted.
C9_EntryPriceIsPublished ==
    [][(Len(orders') = Len(orders) + 1
           /\ manipulatedPrices[orders'[Len(orders')].symbolId] # 0)
        => orders'[Len(orders')].entryPrice =
              manipulatedPrices[orders'[Len(orders')].symbolId]]_vars

\* C10 (as stated): after k consecutive close events with no open in between,
\* for every k up to and including MAX_RECONNECT_ATTEMPTS, the next close arms
\* a reconnect with delay RECONNECT_DELAY * 2^k.
C10_BackoffUpToMaxInclusive ==
    [][(closesSinceOpen' = closesSinceOpen + 1
           /\ closesSinceOpen <= MAX_RECONNECT_ATTEMPTS)
        => reconnectTimers' =
              Append(reconnectTimers, RECONNECT_DELAY * Pow2(closesSinceOpen))]_vars

\* C10 (amended): after k consecutive close events with no open in between,
\* the next close arms exactly one reconnect with delay RECONNECT_DELAY * 2^k
\* when k < MAX_RECONNECT_ATTEMPTS and arms none when k >= MAX_RECONNECT_ATTEMPTS;
\* a successful open resets the attempt counter to 0.
C10_Backoff ==
    [][/\ (closesSinceOpen' = closesSinceOpen + 1
              /\ closesSinceOpen < MAX_RECONNECT_ATTEMPTS)
          => reconnectTimers' =
                Append(reconnectTimers, RECONNECT_DELAY * Pow2(closesSinceOpen))
       /\ (closesSinceOpen' = closesSinceOpen + 1
              /\ closesSinceOpen >= MAX_RECONNECT_ATTEMPTS)
          => reconnectTimers' = reconnectTimers
       /\ (\E s \in 1..Len(sockets) :
              sockets[s] = "CONNECTING" /\ sockets'[s] = "OPEN")
          => reconnectAttempts' = 0]_vars

\* The fourth consecutive close has armed the 40 s reconnect, and the chain
\* started after a successful open had reset the counter.
C10_Witness ==
    /\ closesSinceOpen = 4
    /\ reconnectTimers = <<RECONNECT_DELAY * 8>>
    /\ pingInterval # 0

\* C11: the price cache keeps the most recently observed price: a frame whose
\* event time is older than that of the cached observation leaves the cache as
\* it is, so the cached price is the price of the observation with the latest
\* event time (the last one received among those of equal event time; stated
\* for a cache that holds a number).
C11_CacheKeepsNewest ==
    \A sym \in Symbols :
        priceCache[sym] # NotANumber => priceCache[sym] = newest[sym].price

C13_PublishWithinBand ==
    (calc.op \in {"publish", "publishJittered"}
        /\ calc.rawPrice > 0 /\ calc.upValue + calc.downValue > 0)
    => /\ 1000 * (calc.out - calc.rawPrice) <= 3 * calc.rawPrice
       /\ 1000 * (calc.rawPrice - calc.out) <= 3 * calc.rawPrice

\* The bias downwards and the lowest random variation have been applied
\* together: 100 * 0.998 * 0.99975 = 99.77505.
C13_Witness ==
    /\ calc.op = "publishJittered"
    /\ calc.rawPrice = 100000
    /\ calc.upValue = 70
    /\ calc.randomFactor = 3999
    /\ calc.out = 99775

\* C14: subscribing is idempotent: in every connection state, subscribing to
\* a symbol twice leaves the interest set and the frames sent as subscribing
\* once does, and subscribing to a symbol already of interest sends no frame
\* and changes nothing.
C14_SubscribeIdempotent ==
    \A sym \in FeedSymbols :
        LET once == SubscribeEffect(activeSymbols, sent, sym)
            twice == SubscribeEffect(once.activeSymbols, once.sent, sym)
        IN /\ twice = once
           /\ sym \in activeSymbols
                => once = [activeSymbols |-> activeSymbols, sent |-> sent]

\* Two frames were sent on the open socket, one symbol each: a socket opens
\* once, so one of them at least was sent by a subscribe call of its own.
C14_Witness ==
    /\ FeedIsOpen
    /\ activeSymbols = FeedSymbols
    /\ sent = <<[sock |-> binanceWs, params |-> {"BTCUSDT"}],
                [sock |-> binanceWs, params |-> {"ETHUSDT"}]>>

\* Upstream sockets connecting or open.
LiveSockets == {s \in 1..Len(sockets) : sockets[s] \in {"CONNECTING", "OPEN"}}

\* C15: each disconnection schedules one reconnect: at no time are two
\* reconnect timers pending or two upstream sockets live, a live socket and
\* a pending timer never coexist, an error event arms no timer of its own,
\* and the close event (after an error, or alone) arms exactly one while the
\* attempts are below the cap.
C15_OneReconnectPerDisconnection ==
    /\ [](Len(reconnectTimers) <= 1)
    /\ [](Cardinality(LiveSockets) <= 1)
    /\ [](Len(reconnectTimers) + Cardinality(LiveSockets) <= 1)
    /\ [][/\ (\E s \in 1..Len(sockets) :
                 sockets[s] # "CLOSING" /\ sockets'[s] = "CLOSING")
             => reconnectTimers' = reconnectTimers
          /\ (closesSinceOpen' = closesSinceOpen + 1
                 /\ reconnectAttempts < MAX_RECONNECT_ATTEMPTS)
             => Len(reconnectTimers') = Len(reconnectTimers) + 1]_vars

\* No socket ever opened (no heartbeat was started): the first connection
\* failed with an error and closed, the reconnect failed the same way, and
\* the one timer pending is the one armed by the second close.
C15_Witness ==
    /\ pingInterval = 0
    /\ sockets = <<"CLOSED", "CLOSED">>
    /\ reconnectTimers = <<ReconnectDelay(1)>>

\* C16: no subscription is lost across disconnections: the interest set
\* never shrinks, so a symbol subscribed while the socket is not open (no
\* frame is sent then) is still of interest at the next open; every open
\* with a non-empty interest set sends, on the socket that opened, one frame
\* listing the whole interest set of that moment; a subscribe for a new
\* symbol on an open socket sends one frame for that symbol at once.
C16_SubscriptionsSurviveReconnect ==
    [][/\ activeSymbols \subseteq activeSymbols'
       /\ \A s \in 1..Len(sockets) :
             (sockets[s] = "CONNECTING" /\ sockets'[s] = "OPEN"
                 /\ activeSymbols # {})
             => sent' = Append(sent, [sock |-> s, params |-> activeSymbols])
       /\ \A sym \in FeedSymbols :
             (sym \notin activeSymbols /\ sym \in activeSymbols')
             => IF FeedIsOpen
                THEN sent' = Append(sent, [sock |-> binanceWs, params |-> {sym}])
                ELSE sent' = sent]_vars

\* Both symbols were subscribed while the first socket was down or closed,
\* and the reconnected socket has opened and sent the one frame listing both.
C16_Witness ==
    /\ Len(sockets) = 2
    /\ sockets[2] = "OPEN"
    /\ sent = <<[sock |-> 2, params |-> FeedSymbols]>>

\* C17: the settlement price of an order is the publishing function applied
\* to the raw price and the totals read by the settlement: when a settlement
\* computes its final price while a raw price is cached, the final price is
\* Manipulate(raw price, upValue, downValue) (stated for stores whose orders
\* all meet the intake preconditions).
C17_SettlementPriceIsPublish ==
    [][\A i \in 1..MaxSettle :
          (settle[i].pc = "idle" /\ settle'[i].pc = "commit"
              /\ (\A o \in 1..Len(orders) : WellFormed(o))
              /\ getCurrentPrice(orders[settle'[i].order].symbolId) # 0)
          => settle'[i].finalPrice =
                Manipulate(getCurrentPrice(orders[settle'[i].order].symbolId),
                           getOrderTotals(orders[settle'[i].order].symbolId).upValue,
                           getOrderTotals(orders[settle'[i].order].symbolId).downValue)]_vars

\* The last-second manipulation and the publishing function agree on every
\* price and pair of totals.
SettleThresholdIsPublishThreshold ==
    calc.op = "settlePrice"
    => calc.out = Manipulate(calc.rawPrice, calc.upValue, calc.downValue)

\* C18: the outcome written by a settlement is win exactly when the direction
\* is up and the settlement price is above the entry price, or the direction
\* is down and the settlement price is below it, and loss otherwise; a
\* settlement price equal to the entry price is a loss (stated for the orders
\* that meet the intake preconditions).
C18_OutcomeRule ==
    [][\A o \in 1..Len(orders) :
          (WellFormed(o)
              /\ orders[o].outcome = "pending" /\ orders'[o].outcome # "pending")
          => /\ orders'[o].outcome \in {"win", "loss"}
             /\ orders'[o].outcome = "win"
                <=> \/ /\ orders[o].direction = "up"
                       /\ orders'[o].exitPrice > orders[o].entryPrice
                    \/ /\ orders[o].direction = "down"
                       /\ orders'[o].exitPrice < orders[o].entryPrice]_vars

\* An up order and a down order were both settled at a price equal to their
\* entry price, and both lost.
C18_Witness ==
    /\ Len(orders) = 2
    /\ \A o \in 1..2 :
          /\ orders[o].outcome = "loss"
          /\ orders[o].exitPrice = orders[o].entryPrice
    /\ orders[1].direction # orders[2].direction

\* C19: the step that writes the outcome of an order writes, on a win, the
\* profit amount * payout of the order and adds amount + profit to the balance
\* of its user; on a loss it writes the profit -amount and leaves the balance
\* as it is.
C19_SettlementBalanceEffect ==
    [][\A o \in 1..Len(orders) :
          (orders[o].outcome = "pending" /\ orders'[o].outcome # "pending")
          => IF orders'[o].outcome = "win"
             THEN /\ PayoutDen * orders'[o].profitLoss
                        = orders[o].payoutNum * orders[o].amount
                  /\ balance' = [balance EXCEPT ![orders[o].userId] =
                                    @ + orders[o].amount + orders'[o].profitLoss]
             ELSE /\ orders'[o].profitLoss = -orders[o].amount
                  /\ balance' = balance]_vars

\* The first order was won (stake 10, profit 8, balance 18), the second was
\* placed from that balance and lost, which left the balance at 8.
C19_Witness ==
    /\ Len(orders) = 2
    /\ orders[1].outcome = "win" /\ orders[1].profitLoss = 8
    /\ orders[2].outcome = "loss" /\ orders[2].profitLoss = -10
    /\ audit[1].credits = 1 /\ audit[2].credits = 0
    /\ balance["u1"] = 8

\* C20: the settlement attempt arranged for an accepted order fires at or
\* after the order's expiresAt, never before.
C20_FiresAtOrAfterExpiry ==
    calc.op = "armSettlement" =>
        \/ calc.fireAt.s > calc.expiresAt.s
        \/ /\ calc.fireAt.s = calc.expiresAt.s
           /\ calc.fireAt.ms >= calc.expiresAt.ms

\* For every accepted order exactly one settlement attempt is arranged: its
\* timeout is armed and its callback has not run, or the timeout is gone and
\* the callback has run once; no timeout exists without an order.
OneAttemptPerAcceptedOrder ==
    /\ timers \subseteq 1..Len(orders)
    /\ \A o \in 1..Len(orders) :
          IF o \in timers THEN audit[o].invocations = 0
          ELSE audit[o].invocations = 1

\* A rejected intake and an intake whose transaction failed arm no timeout.
NoAttemptWithoutOrder ==
    [][lastResp'.status \in {400, 500} => timers' = timers]_vars

\* C21: an inbound frame that is not a well-formed ticker update (text that
\* is not JSON, another event type, a ticker frame whose price is missing or
\* not a number) is dropped: handled in any reachable state, it leaves the
\* price cache as it is.
C21_BadFramesDropped ==
    \A sym \in Symbols, kind \in BadFrames :
        OnMessage(priceCache, sym, kind, NotANumber) = priceCache

\* C22: the heartbeat runs only while the transport is open.  At most one
\* heartbeat loop is active; a loop is active only for the current socket,
\* after its open and before its close has been handled; the close handler
\* stops the loop in the step that schedules the reconnect; and a ping is
\* sent only on an open socket, by that socket's own loop, so none is sent
\* between a close and the next open.
C22_HeartbeatOnlyWhileOpen ==
    /\ [](/\ Cardinality(pingLoops) <= 1
          /\ pingLoops # {} =>
                /\ pingLoops = {binanceWs}
                /\ sockets[binanceWs] \in {"OPEN", "CLOSING"}
                /\ reconnectTimers = << >>)
    /\ [][/\ closesSinceOpen' = closesSinceOpen + 1 => pingLoops' = {}
          /\ lastPing' # lastPing =>
                /\ sockets[lastPing'] = "OPEN"
                /\ pingLoops = {lastPing'}]_vars

\* The feed was closed and reopened, and the second socket's heartbeat has
\* sent a ping while being the only loop.
C22_Witness ==
    /\ sockets = <<"CLOSED", "OPEN">>
    /\ pingLoops = {2}
    /\ lastPing = 2

\* C23: the price update of a symbol is published once per cadence period,
\* however many clients are connected: within one period of 1000 ms no
\* connected client receives more than one update.
C23_OneUpdatePerPeriod ==
    \A c \in DOMAIN received : received[c] <= 1

\* C25: publish timers do not outlive their clients: when the set of clients
\* of a symbol is empty, no publish interval of that symbol is running.
C25_NoIntervalWithoutClient ==
    \A sym \in Symbols :
        clients[sym] = {} => \A w \in 1..MaxStreams : <<w, sym>> \notin intervals

\* Stakes of the orders 1..n accepted for user u.
RECURSIVE StakesOf(_, _)
StakesOf(u, n) ==
    IF n = 0 THEN 0
    ELSE StakesOf(u, n - 1) + (IF orders[n].userId = u THEN orders[n].amount ELSE 0)

\* amount + profitLoss summed over the orders 1..n of user u with outcome win.
RECURSIVE WinningsOf(_, _)
WinningsOf(u, n) ==
    IF n = 0 THEN 0
    ELSE WinningsOf(u, n - 1)
         + (IF orders[n].userId = u /\ orders[n].outcome = "win"
            THEN orders[n].amount + orders[n].profitLoss
            ELSE 0)

\* C24: balance conservation: the balance of every user equals the initial
\* balance, minus the amounts of all the user's accepted orders, plus
\* amount + profitLoss of the user's orders whose outcome is win; also while
\* settlements of different orders of the user run at the same time, when no
\* credit is lost and none is applied twice.
C24_BalanceConservation ==
    /\ \A u \in Users :
          balance[u] = InitialBalance - StakesOf(u, Len(orders))
                                      + WinningsOf(u, Len(orders))
    /\ \A o \in 1..Len(orders) :
          audit[o].credits = (IF orders[o].outcome = "win" THEN 1 ELSE 0)

\* Settlements of two orders of the user overlap: the callback of the second
\* order took the second slot because the first slot was busy with the first
\* order, whose win has since been credited, and it holds a win of its own
\* that is not yet committed.
C24_Witness ==
    /\ Len(orders) = 2
    /\ orders[1].outcome = "win"
    /\ orders[2].outcome = "pending"
    /\ settle[1].pc = "idle"
    /\ settle[2].pc = "commit" /\ settle[2].order = 2 /\ settle[2].isWin
    /\ balance["u1"] = InitialBalance - 20 + 18

====
